---------------------------- MODULE Spec2Model ----------------------------
(***************************************************************************)
(* Model of brainrender/actor.py: the label synthesizer make_actor_label   *)
(* and the Actor class (construction, attribute delegation, make_label,    *)
(* make_silhouette, mirror).                                               *)
(*                                                                         *)
(* Python values are modelled as follows.                                  *)
(*   - an optional value is a sequence: << >> is None, <<v>> is v;         *)
(*   - a 3D point is a triple of integers;                                 *)
(*   - an object's __dict__ is a function from attribute names to values   *)
(*     (an attribute that was never assigned is not in its DOMAIN);        *)
(*   - a call either returns or raises: [kind |-> "return", val |-> v] or  *)
(*     [kind |-> "raise", exc |-> "IndexError"].                           *)
(* The geometry engine (vedo) and the atlas (brainglobe) are not part of   *)
(* the repository: they are modelled by what their interface does on       *)
(* integer point sets, and the atlas's behaviour is an input.              *)
(***************************************************************************)
EXTENDS Integers, Sequences, FiniteSets, TLC

VARIABLES
    call,     \* SpecLabel: the arguments of one make_actor_label call
    ret,      \* SpecLabel: what that call did ("pending" before it runs)
    actors,   \* Spec: the Actor instances, actor id -> __dict__ (or NoActor)
    cls,      \* Spec: the class-level attributes of Actor
    last,     \* Spec: the last operation, its arguments and its outcome
    nmirror   \* Spec: number of mirror calls made so far

vars == <<call, ret, actors, cls, last, nmirror>>

---------------------------------------------------------------------------
(* Bounds *)

MaxBatch == 2       \* longest list of actors / labels given to one call
MaxMirror == 1      \* mirror calls in one behaviour

---------------------------------------------------------------------------
(* Python helpers *)

None == << >>
Some(v) == <<v>>

Return(v) == [kind |-> "return", val |-> v]
Raise(e) == [kind |-> "raise", exc |-> e]

\* Python truthiness of an optional number / string
TruthyNum(o) == o # None /\ o[1] # 0
TruthyStr(o) == o # None /\ o[1] # ""

Add3(p, q) == <<p[1] + q[1], p[2] + q[2], p[3] + q[3]>>
Neg3(p) == <<-p[1], -p[2], -p[3]>>
NegZ(p) == <<p[1], p[2], -p[3]>>

\* listify: a list stays as it is, anything else becomes a one-element list
listify(obj) == IF obj.kind = "list" THEN obj.items ELSE <<obj.item>>

AsList(s) == [kind |-> "list", items |-> s]
Single(x) == [kind |-> "single", item |-> x]

\* zip(a, b): pairs up to the shorter of the two
zip(a, b) ==
    LET n == IF Len(a) < Len(b) THEN Len(a) ELSE Len(b)
    IN  [i \in 1..n |-> <<a[i], b[i]>>]

\* np.argmin(points[:, 1]): the first index whose second coordinate is minimal
argmin1(points) ==
    CHOOSE i \in 1..Len(points) :
        /\ \A j \in 1..Len(points) : points[i][2] <= points[j][2]
        /\ \A j \in 1..(i - 1) : points[j][2] > points[i][2]

---------------------------------------------------------------------------
(* Geometry engine: a mesh is [vertices, c, a] *)

SqDist(p, q) ==
    (p[1] - q[1]) * (p[1] - q[1]) + (p[2] - q[2]) * (p[2] - q[2])
        + (p[3] - q[3]) * (p[3] - q[3])

\* mesh.closest_point(p): a fresh array holding the nearest mesh point
closest_point(mesh, p) ==
    LET v == mesh.vertices
        i == CHOOSE i \in 1..Len(v) :
                /\ \A j \in 1..Len(v) : SqDist(v[i], p) <= SqDist(v[j], p)
                /\ \A j \in 1..(i - 1) : SqDist(v[j], p) > SqDist(v[i], p)
    IN  v[i]

\* vertices.copy(): a new array; writes through a view of it do not reach
\* the mesh
vertices_copy(v) == [data |-> v, shares_mesh |-> FALSE]

\* mesh.mirror(axis, origin): reflect the coordinate of the axis about the
\* origin (the coordinate origin when none is given)
mesh_mirror(mesh, axis, origin) ==
    LET k == IF axis = "x" THEN 1 ELSE IF axis = "y" THEN 2 ELSE 3
        o == IF origin = << >> THEN <<0, 0, 0>> ELSE origin[1]
        v == mesh.vertices
    IN  [mesh EXCEPT !.vertices =
            [i \in 1..Len(v) |-> [v[i] EXCEPT ![k] = 2 * o[k] - v[i][k]]]]

\* mesh.clone()
mesh_clone(mesh) == mesh

\* mesh.silhouette().lw(lw).c(color): the outline of the mesh
mesh_silhouette(mesh, lw, color) ==
    [vertices |-> mesh.vertices, outline |-> TRUE, lw |-> lw, c |-> color,
     a |-> mesh.a]

---------------------------------------------------------------------------
(* Anatomical space: a space is its three origin letters, AnatomicalSpace  *)
(* ("asr") is <<"a", "s", "r">>                                            *)

AnatomicalAxes == {"sagittal", "vertical", "frontal"}

AxisLetters(axis) ==
    IF axis = "sagittal" THEN {"a", "p"}
    ELSE IF axis = "vertical" THEN {"s", "i"}
    ELSE {"l", "r"}

\* space.get_axis_idx(axis): the 0-based position of the axis in the space
get_axis_idx(space, axis) ==
    (CHOOSE k \in 1..3 : space[k] \in AxisLetters(axis)) - 1

\* line 226: AnatomicalSpace("asr")
DefaultSpace == <<"a", "s", "r">>

---------------------------------------------------------------------------
(* Atlas: hemisphere lookup and mirroring, an external service.            *)
(* An atlas is [half, miss, mirror_fail]: points with every coordinate in  *)
(* -half..half are inside; the lookup of a point outside does atlas.miss   *)
(* (raise IndexError, raise ValueError, or answer "unknown").              *)

InAtlas(atlas, p) ==
    \A k \in 1..3 : p[k] >= -atlas.half /\ p[k] <= atlas.half

hemisphere_from_coords(atlas, p) ==
    IF InAtlas(atlas, p)
    THEN Return(IF p[3] < 0 THEN "left" ELSE "right")
    ELSE IF atlas.miss = "unknown" THEN Return("unknown")
         ELSE Raise(atlas.miss)

mirror_point_across_hemispheres(atlas, p) ==
    IF atlas.mirror_fail = "none" THEN Return(NegZ(p))
    ELSE Raise(atlas.mirror_fail)

\* the correction without the except clause: every failure propagates
hemisphere_correction_uncaught(atlas, point) ==
    LET h == hemisphere_from_coords(atlas, point)
    IN  IF h.kind = "raise" THEN h
        ELSE IF h.val = "left"
             THEN mirror_point_across_hemispheres(atlas, point)
             ELSE Return(point)

\* lines 57-61: the hemisphere correction inside try / except IndexError
hemisphere_correction(atlas, point) ==
    LET h == hemisphere_from_coords(atlas, point)
    IN  IF h.kind = "raise"
        THEN IF h.exc = "IndexError" THEN Return(point) ELSE h
        ELSE IF h.val = "left"
             THEN LET m == mirror_point_across_hemispheres(atlas, point)
                  IN  IF m.kind = "raise"
                      THEN IF m.exc = "IndexError" THEN Return(point) ELSE m
                      ELSE m
             ELSE Return(point)

---------------------------------------------------------------------------
(* Actor: class-level attributes, construction, attribute delegation *)

\* lines 82-88: the attributes defined on the class itself
ActorClassAttrs ==
    [_needs_label |-> FALSE, _needs_silhouette |-> FALSE,
     _is_transformed |-> FALSE, _is_added |-> FALSE,
     labels |-> << >>, silhouette |-> None]

\* mesh.c(color), mesh.alpha(alpha): the appearance setters of the engine
mesh_c(mesh, color) == [mesh EXCEPT !.c = color]
mesh_alpha(mesh, alpha) == [mesh EXCEPT !.a = alpha]

\* lines 114-122: Actor.__init__; the result is the new instance's __dict__
Actor_init(mesh, name, br_class, is_text, color, alpha) ==
    LET m1 == IF TruthyStr(color) THEN mesh_c(mesh, color[1]) ELSE mesh
        m2 == IF TruthyNum(alpha) THEN mesh_alpha(m1, alpha[1]) ELSE m1
    IN  [mesh |-> m2,
         name |-> IF TruthyStr(name) THEN name[1] ELSE "Actor",
         br_class |-> IF TruthyStr(br_class) THEN br_class[1] ELSE "None",
         is_text |-> is_text]

\* lines 168-173: Actor.make_actor
make_actor(mesh, name, br_class) ==
    Actor_init(mesh, Some(name), Some(br_class), FALSE, None, None)

\* What the engine's mesh type defines
MeshAttrs ==
    {"npoints", "vertices", "center_of_mass", "closest_point", "silhouette"}

hasattr(mesh, attr) == attr \in MeshAttrs

\* getattr(mesh, attr): a property's value, or a method bound to the mesh
getattr(mesh, attr) ==
    IF attr = "npoints" THEN [property |-> attr, value |-> Len(mesh.vertices)]
    ELSE IF attr = "vertices" THEN [property |-> attr, value |-> mesh.vertices]
    ELSE [method |-> attr, bound_to |-> mesh]

\* lines 134-135
mesh_attributes == {"center_of_mass"}

\* the delegation that only ever consults the primary mesh
Actor_getattr_primary(self, attr) ==
    IF "mesh" \notin DOMAIN self THEN Raise("AttributeError")
    ELSE IF hasattr(self["mesh"], attr)
         THEN Return(getattr(self["mesh"], attr))
         ELSE Raise("AttributeError")

\* lines 124-149: Actor.__getattr__, called for an attribute that neither
\* the instance nor the class defines
Actor_getattr(self, attr) ==
    IF "mesh" \notin DOMAIN self THEN Raise("AttributeError")
    ELSE IF attr \in mesh_attributes
         THEN IF hasattr(self["mesh"], attr)
              THEN Return(getattr(self["mesh"], attr))
              ELSE Raise("AttributeError")
         ELSE IF "_mesh" \in DOMAIN self
              THEN IF hasattr(self["_mesh"], attr)
                   THEN Return(getattr(self["_mesh"], attr))
                   ELSE Raise("AttributeError")
              ELSE IF hasattr(self["mesh"], attr)
                   THEN Return(getattr(self["mesh"], attr))
                   ELSE Raise("AttributeError")

\* Python attribute access self.attr: instance, then class, then __getattr__
Lookup(self, klass, attr) ==
    IF attr \in DOMAIN self THEN Return(self[attr])
    ELSE IF attr \in DOMAIN klass THEN Return(klass[attr])
    ELSE Actor_getattr(self, attr)

---------------------------------------------------------------------------
(* Label synthesizer *)

DefaultSize == 300
DefaultRadius == 100
DefaultXOffset == 0
DefaultYOffset == -500
DefaultZOffset == 0
SphereRes == 8

\* line 49
default_color == "0.2,0.2,0.2"

\* the offsets taken in x, y, z order
label_offset_unpermuted(xoffset, yoffset, zoffset) ==
    <<-xoffset, -yoffset, zoffset>>

\* line 42
label_offset(xoffset, yoffset, zoffset) == <<-yoffset, -zoffset, xoffset>>

\* line 43
default_offset == <<0, -200, 100>>

\* lines 64-67: Text3D(label, pos, s, c, depth=0.1).rotate_x(180).rotate_y(180)
Text3D(label, pos, size, color) ==
    [shape |-> "Text3D", txt |-> label, pos |-> pos, s |-> size, c |-> color,
     rotated |-> <<"x180", "y180">>]

\* lines 73-76: Sphere(pt, r, c, res=8), tagged with its anchor
Sphere(pt, radius, color) ==
    [shape |-> "Sphere", pos |-> pt, r |-> radius, c |-> color,
     res |-> SphereRes, ancor |-> pt, normals |-> TRUE]

\* a marker only for a radius that is truthy
marker_wanted_truthy(radius) == TruthyNum(radius)

\* line 70: is an anchor marker made?
marker_wanted(radius) == radius # None

\* lines 46-76: the loop over the pairs, from pair i on.  acc holds the
\* objects made so far and, per pair, the source mesh's vertices afterwards.
RECURSIVE label_loop(_, _, _, _, _, _, _, _)
label_loop(atlas, pairs, i, size, color, radius, shift, acc) ==
    IF i > Len(pairs) THEN Return(acc)
    ELSE
      LET actor == pairs[i][1]
          label == pairs[i][2]
          color1 == IF color = None THEN Some(default_color) ELSE color
          points == vertices_copy(actor["mesh"].vertices)
          k == argmin1(points.data)
          point == NegZ(Add3(points.data[k], shift))
          written == [points.data EXCEPT ![k] = point]
          actor1 == IF points.shares_mesh
                    THEN [actor EXCEPT !["mesh"].vertices = written]
                    ELSE actor
          corr == hemisphere_correction(atlas, point)
      IN  IF corr.kind = "raise" THEN corr
          ELSE
            LET p == corr.val
                txt == Text3D(label, Neg3(p), size, color1[1])
                cp == Lookup(actor1, ActorClassAttrs, "closest_point")
            IN  IF ~marker_wanted(radius)
                THEN label_loop(atlas, pairs, i + 1, size, color1, radius,
                        shift,
                        [new_actors |-> Append(acc.new_actors, txt),
                         vertices |-> Append(acc.vertices,
                                             actor1["mesh"].vertices)])
                ELSE IF cp.kind = "raise" THEN cp
                ELSE
                  LET pt == NegZ(closest_point(cp.val.bound_to, p))
                      sphere == Sphere(pt, radius[1], color1[1])
                  IN  label_loop(atlas, pairs, i + 1, size, color1, radius,
                        shift,
                        [new_actors |-> acc.new_actors \o <<txt, sphere>>,
                         vertices |-> Append(acc.vertices,
                                             actor1["mesh"].vertices)])

\* lines 19-78
make_actor_label(atlas, actrs, labels, size, color, radius, xoff, yoff, zoff) ==
    label_loop(atlas, zip(listify(actrs), listify(labels)), 1, size, color,
               radius,
               Add3(label_offset(xoff, yoff, zoff), default_offset),
               [new_actors |-> << >>, vertices |-> << >>])

---------------------------------------------------------------------------
(* Actor: derived children and mirror *)

SetAttr(self, attr, v) == (attr :> v) @@ self

KwArg(kw, key, default) == IF key \in DOMAIN kw THEN kw[key] ELSE default

\* the produced labels appended to the list the attribute refers to
store_labels_extend(self, klass, lbls) ==
    IF "labels" \in DOMAIN self
    THEN [self |-> SetAttr(SetAttr(self, "_needs_label", FALSE),
                           "labels", self["labels"] \o lbls),
          klass |-> klass]
    ELSE [self |-> SetAttr(self, "_needs_label", FALSE),
          klass |-> [klass EXCEPT !.labels = klass.labels \o lbls]]

\* lines 183, 188: clear the flag and store the children on the instance
store_labels(self, klass, lbls) ==
    [self |-> SetAttr(SetAttr(self, "_needs_label", FALSE), "labels", lbls),
     klass |-> klass]

\* lines 175-189: Actor.make_label; yields the instance, the class and the
\* outcome of the call
Actor_make_label(self, klass, atlas) ==
    LET s == Lookup(self, klass, "_label_str")
        kw == Lookup(self, klass, "_label_kwargs")
        unchanged(r) == [self |-> self, klass |-> klass, ret |-> r]
    IN  IF s.kind = "raise" THEN unchanged(s)
        ELSE IF kw.kind = "raise" THEN unchanged(kw)
        ELSE
          LET r == make_actor_label(atlas, Single(self), Single(s.val),
                      KwArg(kw.val, "size", DefaultSize),
                      KwArg(kw.val, "color", None),
                      KwArg(kw.val, "radius", Some(DefaultRadius)),
                      KwArg(kw.val, "xoffset", DefaultXOffset),
                      KwArg(kw.val, "yoffset", DefaultYOffset),
                      KwArg(kw.val, "zoffset", DefaultZOffset))
          IN  IF r.kind = "raise" THEN unchanged(r)
              ELSE
                LET self1 == [self EXCEPT
                                 !["mesh"].vertices = r.val.vertices[1]]
                    made == r.val.new_actors
                    lbls == [i \in 1..Len(made) |->
                                make_actor(made[i], self1["name"], "label")]
                    st == store_labels(self1, klass, lbls)
                IN  [self |-> st.self, klass |-> st.klass,
                     ret |-> Return(lbls)]

\* the child made without marking it transformed
silhouette_child_unmarked(sil_mesh, parent_name) ==
    make_actor(sil_mesh, parent_name \o " silhouette", "silhouette")

\* lines 199-201: the child Actor of a silhouette
silhouette_child(sil_mesh, parent_name) ==
    SetAttr(make_actor(sil_mesh, parent_name \o " silhouette", "silhouette"),
            "_is_transformed", TRUE)

\* lines 191-206: Actor.make_silhouette
Actor_make_silhouette(self, klass) ==
    LET kw == Lookup(self, klass, "_silhouette_kwargs")
        m == Lookup(self, klass, "_mesh")
    IN  IF kw.kind = "raise" THEN [self |-> self, ret |-> kw]
        ELSE IF m.kind = "raise" THEN [self |-> self, ret |-> m]
        ELSE
          LET sil == silhouette_child(
                        mesh_silhouette(m.val, kw.val.lw, kw.val.color),
                        self["name"])
          IN  [self |-> SetAttr(SetAttr(self, "_needs_silhouette", FALSE),
                                "silhouette", Some(sil)),
               ret |-> Return(sil)]

\* the synonym always resolved in the default space
mirror_axis_default_space(axis, atlas) ==
    IF axis \in AnatomicalAxes
    THEN LET axis_ind == get_axis_idx(DefaultSpace, axis)
         IN  IF axis_ind = 0 THEN "x" ELSE IF axis_ind = 1 THEN "y" ELSE "z"
    ELSE axis

\* lines 225-229: the axis handed to the mesh
mirror_axis(axis, atlas) ==
    IF axis \in AnatomicalAxes
    THEN LET anatomical_space ==
                 IF atlas # None THEN atlas[1].space ELSE DefaultSpace
             axis_ind == get_axis_idx(anatomical_space, axis)
         IN  IF axis_ind = 0 THEN "x" ELSE IF axis_ind = 1 THEN "y" ELSE "z"
    ELSE axis

\* lines 208-231: Actor.mirror
Actor_mirror(self, axis, origin, atlas) ==
    [self EXCEPT !["mesh"] =
        mesh_mirror(self["mesh"], mirror_axis(axis, atlas), origin)]

---------------------------------------------------------------------------
(* Inputs *)

Mesh(v) == [vertices |-> v, c |-> "engine-default", a |-> 100]

\* two minimal second coordinates: the first of them is the one taken
MeshA == Mesh(<< <<0, 0, 0>>, <<10, -20, 30>>, <<-5, -20, 7>> >>)
MeshB == Mesh(<< <<3, 4, 150>>, <<600, 300, -150>> >>)

ActorA == Actor_init(MeshA, Some("hippocampus"), Some("brain region"),
                     FALSE, None, None)

\* an actor that was given its secondary mesh and then mirrored about z
ActorB ==
    LET made == Actor_init(mesh_mirror(MeshB, "z", None), None, None, FALSE,
                           Some("red"), None)
        prepared == SetAttr(made, "_mesh", mesh_clone(made["mesh"]))
    IN  Actor_mirror(prepared, "z", None, None)

ActorPool == {ActorA, ActorB}
LabelPool == {"CA1", "TH"}

SeqsUpTo(S, n) == UNION {[1..k -> S] : k \in 0..n}

Atlases ==
    [half : {50, 1000},
     miss : {"IndexError", "ValueError", "unknown"},
     mirror_fail : {"none", "IndexError", "ValueError"}]

Offsets == {<<DefaultXOffset, DefaultYOffset, DefaultZOffset>>, <<-200, 10, 20>>}

CallInputs ==
    [atlas : Atlases,
     actors : {AsList(a) : a \in SeqsUpTo(ActorPool, MaxBatch)}
                \cup {Single(a) : a \in ActorPool},
     labels : {AsList(l) : l \in SeqsUpTo(LabelPool, MaxBatch)}
                \cup {Single(l) : l \in LabelPool},
     size : {DefaultSize},
     color : {None, Some("red")},
     radius : {None, Some(0), Some(DefaultRadius)},
     offsets : Offsets]

Pending == [kind |-> "pending"]
Idle == [op |-> "none"]

---------------------------------------------------------------------------
(* SpecLabel: one call of make_actor_label on drawn inputs *)

InitLabel ==
    /\ call \in CallInputs
    /\ ret = Pending
    /\ actors = << >>
    /\ cls = ActorClassAttrs
    /\ last = Idle
    /\ nmirror = 0

CallMakeActorLabel ==
    /\ ret = Pending
    /\ ret' = make_actor_label(call.atlas, call.actors, call.labels,
                               call.size, call.color, call.radius,
                               call.offsets[1], call.offsets[2],
                               call.offsets[3])
    /\ UNCHANGED <<call, actors, cls, last, nmirror>>

NextLabel == CallMakeActorLabel

SpecLabel == InitLabel /\ [][NextLabel]_vars

---------------------------------------------------------------------------
(* Spec: the life of two Actor instances *)

ActorIds == {"a1", "a2"}
NoActor == [absent |-> TRUE]
Unused == [kind |-> "unused"]

\* (name, color, alpha) given to the constructor
ConstructArgs ==
    {<<None, None, None>>,
     <<Some("hippocampus"), Some("red"), Some(50)>>,
     <<Some("hippocampus"), None, Some(0)>>}
MirrorAxes == {"x", "y", "z"} \cup AnatomicalAxes
Origins == {None, Some(<<1, 2, 3>>)}
QueriedAttrs == {"vertices", "center_of_mass", "no_such_attribute"}

\* the atlases handed to make_label and mirror
SceneAtlases ==
    {[half |-> 1000, miss |-> "IndexError", mirror_fail |-> "none",
      space |-> <<"s", "r", "a">>],
     [half |-> 50, miss |-> "IndexError", mirror_fail |-> "none",
      space |-> <<"a", "s", "r">>]}

\* the atlas argument of mirror: none, or one whose space is not "asr"
MirrorAtlases ==
    {None} \cup {Some(a) : a \in {b \in SceneAtlases : b.space # DefaultSpace}}

LabelKwargs == {<< >>, [radius |-> None]}

Exists(id) == actors[id] # NoActor

Init ==
    /\ call = Unused
    /\ ret = Pending
    /\ actors = [id \in ActorIds |-> NoActor]
    /\ cls = ActorClassAttrs
    /\ last = Idle
    /\ nmirror = 0

\* Actor(mesh, name, color=..., alpha=...)
Construct(id, mesh, name, color, alpha) ==
    /\ ~Exists(id)
    /\ actors' = [actors EXCEPT ![id] =
                     Actor_init(mesh, name, None, FALSE, color, alpha)]
    /\ last' = [op |-> "construct", self |-> id, mesh |-> mesh,
                color |-> color, alpha |-> alpha, ret |-> Return(id)]
    /\ UNCHANGED <<call, ret, cls, nmirror>>

\* the scene attaches a label text and its configuration to the actor
AddLabel(id, text, kw) ==
    /\ Exists(id)
    /\ "_label_str" \notin DOMAIN actors[id]
    /\ actors' = [actors EXCEPT ![id] =
                     SetAttr(SetAttr(SetAttr(@, "_needs_label", TRUE),
                                     "_label_str", text),
                             "_label_kwargs", kw)]
    /\ last' = [op |-> "add_label", self |-> id, ret |-> Return(None)]
    /\ UNCHANGED <<call, ret, cls, nmirror>>

\* the scene attaches a silhouette configuration to the actor
AddSilhouette(id, lw, color) ==
    /\ Exists(id)
    /\ "_silhouette_kwargs" \notin DOMAIN actors[id]
    /\ actors' = [actors EXCEPT ![id] =
                     SetAttr(SetAttr(@, "_needs_silhouette", TRUE),
                             "_silhouette_kwargs",
                             [lw |-> lw, color |-> color])]
    /\ last' = [op |-> "add_silhouette", self |-> id, ret |-> Return(None)]
    /\ UNCHANGED <<call, ret, cls, nmirror>>

\* the renderer gives the actor its secondary mesh, once
Prepare(id) ==
    /\ Exists(id)
    /\ Lookup(actors[id], cls, "_is_transformed") = Return(FALSE)
    /\ actors' = [actors EXCEPT ![id] =
                     SetAttr(SetAttr(@, "_mesh", mesh_clone(@["mesh"])),
                             "_is_transformed", TRUE)]
    /\ last' = [op |-> "prepare", self |-> id, ret |-> Return(None)]
    /\ UNCHANGED <<call, ret, cls, nmirror>>

\* actor.<attr> for an attribute the Actor class does not define
GetAttr(id, attr) ==
    /\ Exists(id)
    /\ last' = [op |-> "getattr", self |-> id, attr |-> attr,
                ret |-> Lookup(actors[id], cls, attr)]
    /\ UNCHANGED <<call, ret, actors, cls, nmirror>>

\* actor.make_label(atlas)
MakeLabel(id, atlas) ==
    /\ Exists(id)
    /\ LET r == Actor_make_label(actors[id], cls, atlas)
       IN  /\ actors' = [actors EXCEPT ![id] = r.self]
           /\ cls' = r.klass
           /\ last' = [op |-> "make_label", self |-> id, ret |-> r.ret]
    /\ UNCHANGED <<call, ret, nmirror>>

\* actor.make_silhouette()
MakeSilhouette(id) ==
    /\ Exists(id)
    /\ LET r == Actor_make_silhouette(actors[id], cls)
       IN  /\ actors' = [actors EXCEPT ![id] = r.self]
           /\ last' = [op |-> "make_silhouette", self |-> id, ret |-> r.ret]
    /\ UNCHANGED <<call, ret, cls, nmirror>>

\* actor.mirror(axis, origin, atlas)
Mirror(id, axis, origin, atlas) ==
    /\ Exists(id)
    /\ nmirror < MaxMirror
    /\ nmirror' = nmirror + 1
    /\ actors' = [actors EXCEPT ![id] = Actor_mirror(@, axis, origin, atlas)]
    /\ last' = [op |-> "mirror", self |-> id, axis |-> axis,
                origin |-> origin, atlas |-> atlas, ret |-> Return(None)]
    /\ UNCHANGED <<call, ret, cls>>

\* Spec: one actor, every operation
Next ==
    \/ \E args \in ConstructArgs :
          Construct("a1", MeshA, args[1], args[2], args[3])
    \/ \E kw \in LabelKwargs : AddLabel("a1", "CA1", kw)
    \/ AddSilhouette("a1", 1, "black")
    \/ Prepare("a1")
    \/ \E attr \in QueriedAttrs : GetAttr("a1", attr)
    \/ \E atlas \in SceneAtlases : MakeLabel("a1", atlas)
    \/ MakeSilhouette("a1")
    \/ \E axis \in MirrorAxes, origin \in Origins, atlas \in MirrorAtlases :
          Mirror("a1", axis, origin, atlas)

Spec == Init /\ [][Next]_vars

\* SpecPair: two actors, construction and the derived-artifact builds
NextPair ==
    \/ \E id \in ActorIds, args \in ConstructArgs :
          Construct(id, MeshA, args[1], args[2], args[3])
    \/ \E id \in ActorIds, kw \in LabelKwargs : AddLabel(id, "CA1", kw)
    \/ \E id \in ActorIds : AddSilhouette(id, 1, "black")
    \/ \E id \in ActorIds : Prepare(id)
    \/ \E id \in ActorIds, atlas \in SceneAtlases : MakeLabel(id, atlas)
    \/ \E id \in ActorIds : MakeSilhouette(id)

SpecPair == Init /\ [][NextPair]_vars

---------------------------------------------------------------------------
(* Properties of make_actor_label, checked under SpecLabel *)

Pairs == zip(listify(call.actors), listify(call.labels))
N == Len(Pairs)
Made == ret.val.new_actors

\* position in the result of the text (and marker) of pair i
TextAt(i) == IF call.radius # None THEN 2 * i - 1 ELSE i
MarkerAt(i) == 2 * i

\* the mesh that answers a delegated query on the actor
DelegateMesh(a) == IF "_mesh" \in DOMAIN a THEN a["_mesh"] ELSE a["mesh"]

\* the anchor point of an actor as the arithmetic is described: v is the
\* first vertex of minimum second coordinate
ExpectedAnchor(a) ==
    LET v == a["mesh"].vertices[argmin1(a["mesh"].vertices)]
    IN  <<v[1] - call.offsets[2],
          v[2] - call.offsets[3] - 200,
          -(v[3] + call.offsets[1] + 100)>>

\* the anchor after the hemisphere correction: mirrored when the atlas
\* answers "left" and yields a mirror, the uncorrected anchor otherwise
CorrectedAnchor(a) ==
    LET p == ExpectedAnchor(a)
        h == hemisphere_from_coords(call.atlas, p)
        m == mirror_point_across_hemispheres(call.atlas, p)
    IN  IF h.kind = "return" /\ h.val = "left" /\ m.kind = "return"
        THEN m.val ELSE p

LookupDegraded(a) ==
    LET p == ExpectedAnchor(a)
        h == hemisphere_from_coords(call.atlas, p)
        m == mirror_point_across_hemispheres(call.atlas, p)
    IN  \/ h.kind = "raise"
        \/ h.val = "unknown"
        \/ h.val = "left" /\ m.kind = "raise"

C2_ZeroRadiusNoMarker ==
    (ret.kind = "return" /\ call.radius = Some(0) /\ N = 1) =>
        /\ Len(Made) = 1
        /\ \A k \in 1..Len(Made) : Made[k].shape # "Sphere"

\* C3 as stated: however the hemisphere lookup or the mirroring fails, the
\* call returns, with the text of every pair.
C3_NoLookupFailureRaised ==
    ret # Pending =>
        /\ ret.kind = "return"
        /\ \A i \in 1..N : Made[TextAt(i)].txt = Pairs[i][2]

OnlyIndexErrors ==
    /\ call.atlas.miss \in {"IndexError", "unknown"}
    /\ call.atlas.mirror_fail \in {"none", "IndexError"}

\* C3 amended: a lookup or mirroring failure raised as IndexError, or an
\* "unknown" answer, is not raised to the caller: the call returns the text
\* of every pair, the pairs whose lookup degraded being placed at the
\* uncorrected point.
C3_IndexErrorSwallowed ==
    (ret # Pending /\ OnlyIndexErrors) =>
        /\ ret.kind = "return"
        /\ \A i \in 1..N :
              /\ Made[TextAt(i)].txt = Pairs[i][2]
              /\ LookupDegraded(Pairs[i][1]) =>
                    Made[TextAt(i)].pos = Neg3(ExpectedAnchor(Pairs[i][1]))

C3_Witness ==
    /\ ret.kind = "return"
    /\ N >= 2
    /\ call.atlas.miss = "IndexError"
    /\ hemisphere_from_coords(call.atlas,
                              ExpectedAnchor(Pairs[1][1])).kind = "raise"
    /\ Made[TextAt(2)].txt = Pairs[2][2]

\* C4: a call with as many label texts as actors or it fails: with
\* different counts it raises and returns no labels.
C4_CountMismatchRaises ==
    (ret # Pending /\ Len(listify(call.actors)) # Len(listify(call.labels)))
        => ret.kind = "raise"

---------------------------------------------------------------------------
(* Properties of the Actor operations, checked under Spec and SpecPair *)

Self == actors[last.self]

\* C5: make_silhouette yields a child whose is-transformed flag is true,
\* whose class tag is "silhouette" and whose name is the parent's name
\* followed by " silhouette"; the parent's own flag is as before the call.
C5_SilhouetteChild ==
    [][(last'.op = "make_silhouette" /\ last'.ret.kind = "return") =>
          LET id == last'.self
              child == last'.ret.val
          IN  /\ Lookup(child, cls', "_is_transformed") = Return(TRUE)
              /\ child["br_class"] = "silhouette"
              /\ child["name"] = actors[id]["name"] \o " silhouette"
              /\ Lookup(actors'[id], cls', "_is_transformed")
                    = Lookup(actors[id], cls, "_is_transformed")
              /\ cls'._is_transformed = cls._is_transformed]_vars

C5_Witness ==
    /\ last.op = "make_silhouette"
    /\ last.ret.kind = "return"
    /\ last.ret.val["name"] = "hippocampus silhouette"
    /\ Lookup(last.ret.val, cls, "_is_transformed") = Return(TRUE)
    /\ Lookup(Self, cls, "silhouette") = Return(Some(last.ret.val))

ConsultedMesh(self, attr) ==
    IF attr = "center_of_mass" \/ "_mesh" \notin DOMAIN self
    THEN self["mesh"] ELSE self["_mesh"]

Literals == <<"x", "y", "z">>

\* C7: a mirror by an anatomical synonym resolves it in the atlas's space
\* when an atlas is given and in the "asr" space otherwise, to index i, and
\* changes the actor exactly as the literal call for the i-th of x, y, z;
\* a literal axis goes to the mesh unchanged.
C7_MirrorSynonym ==
    [][(last'.op = "mirror" /\ nmirror' = nmirror + 1) =>
          LET id == last'.self
              axis == last'.axis
              space == IF last'.atlas # None THEN last'.atlas[1].space
                       ELSE DefaultSpace
          IN  IF axis \in AnatomicalAxes
              THEN actors'[id]
                     = Actor_mirror(actors[id],
                                    Literals[get_axis_idx(space, axis) + 1],
                                    last'.origin, None)
              ELSE actors'[id]
                     = [actors[id] EXCEPT !["mesh"] =
                           mesh_mirror(@, axis, last'.origin)]]_vars

C7_Witness ==
    /\ last.op = "mirror"
    /\ last.axis = "sagittal"
    /\ last.atlas # None
    /\ get_axis_idx(last.atlas[1].space, "sagittal") = 2
    /\ last.origin # None
    /\ \E args \in ConstructArgs :
          Self = Actor_mirror(
                    Actor_init(MeshA, args[1], None, FALSE, args[2], args[3]),
                    "z", last.origin, None)

\* C8: construction applies a supplied color and a supplied alpha, falsy
\* ones included, to the mesh, and keeps the mesh's own when None is given.
C8_AppearanceApplied ==
    last.op = "construct" =>
        LET m == Self["mesh"]
        IN  /\ IF last.color # None THEN m.c = last.color[1]
               ELSE m.c = last.mesh.c
            /\ IF last.alpha # None THEN m.a = last.alpha[1]
               ELSE m.a = last.mesh.a

BuildAttrs == {"labels", "silhouette", "_needs_label", "_needs_silhouette"}

OthersUntouched(id) ==
    \A j \in ActorIds \ {id} :
        actors[j] # NoActor =>
            /\ actors'[j] # NoActor
            /\ \A attr \in BuildAttrs :
                  Lookup(actors'[j], cls', attr) = Lookup(actors[j], cls, attr)

\* C9: after make_label returns the needs-label flag is false and the
\* stored labels are the returned Actor children, in order; after
\* make_silhouette returns the needs-silhouette flag is false and the
\* stored silhouette is the returned Actor; a build leaves the labels,
\* silhouette and flags of the other Actor as they were.
C9_BuildPostcondition ==
    [][/\ (last'.op = "make_label" /\ last'.ret.kind = "return") =>
            LET id == last'.self
                lbls == last'.ret.val
            IN  /\ Lookup(actors'[id], cls', "_needs_label") = Return(FALSE)
                /\ Lookup(actors'[id], cls', "labels") = Return(lbls)
                /\ \A k \in 1..Len(lbls) :
                      /\ lbls[k]["br_class"] = "label"
                      /\ lbls[k]["mesh"].shape \in {"Text3D", "Sphere"}
                /\ OthersUntouched(id)
       /\ (last'.op = "make_silhouette" /\ last'.ret.kind = "return") =>
            LET id == last'.self
            IN  /\ Lookup(actors'[id], cls', "_needs_silhouette")
                      = Return(FALSE)
                /\ Lookup(actors'[id], cls', "silhouette")
                      = Return(Some(last'.ret.val))
                /\ OthersUntouched(id)]_vars

C9_Witness ==
    /\ last.op = "make_label"
    /\ last.ret.kind = "return"
    /\ Len(last.ret.val) = 1
    /\ Lookup(Self, cls, "labels") = Return(last.ret.val)
    /\ Lookup(Self, cls, "silhouette") # Return(None)
    /\ \E j \in ActorIds \ {last.self} :
          /\ actors[j] # NoActor
          /\ Lookup(actors[j], cls, "labels") = Return(<< >>)
          /\ Lookup(actors[j], cls, "_needs_label") = Return(TRUE)
          /\ Lookup(actors[j], cls, "silhouette") # Return(None)

===========================================================================
